---- MODULE Spec2Model ----
(***************************************************************************)
(* A model of kithairon's two XML readers/writers:                         *)
(*   - labware.py: PlateInfo and its ELW subclasses, the ELWX/ELW document *)
(*     models and the Labware collection (add, to_elwx, to_file,           *)
(*     from_file);                                                         *)
(*   - surveys/platesurvey.py: the Barcode and FloatNullZero annotated     *)
(*     types, WellSurvey, and EchoPlateSurveyXML with its two validators.  *)
(* A behaviour drives one of the two: a Labware collection with a file on  *)
(* disk, or the construction and serialization of one survey document.     *)
(***************************************************************************)
EXTENDS Integers, Sequences, FiniteSets, TLC

VARIABLES
    \* ---- labware.py ----
    plates,     \* Labware._plates: the collection's list of PlateInfo objects
    op,         \* the last Labware operation that ran ("off" in a survey run)
    before,     \* Labware._plates as it was when the last add() was called
    arg,        \* the plate passed to the last add()
    ret,        \* outcome of the last operation: "ok", or the exception raised
    elwx,       \* the EchoLabwareELWX object the last to_elwx() returned
    file,       \* the content of the file at the path (NoFile: no such file)
    written,    \* Labware._plates as it was when to_file() wrote `file`
    pc,         \* position inside Labware.from_file
    xmlstr,     \* from_file's local xmlstr
    attempts,   \* the document models from_file has tried to parse, in order
    firstErr,   \* the exception caught by from_file's except clause
    loaded,     \* the _plates of the Labware from_file returned
    \* ---- surveys/platesurvey.py ----
    svIn,       \* the values handed to EchoPlateSurveyXML (attributes, wells)
    svPc,       \* position inside the construction of the survey document
    svDoc,      \* the model instance: fields after the per-field validators
    svLog,      \* loguru's sink: the warnings emitted so far
    svErr,      \* the exception construction raised ("none": none)
    svOut       \* the field values serialization hands to the XML writer

labVars == <<plates, op, before, arg, ret, elwx, file, written, pc, xmlstr,
             attempts, firstErr, loaded>>
svVars  == <<svIn, svPc, svDoc, svLog, svErr, svOut>>
vars    == <<plates, op, before, arg, ret, elwx, file, written, pc, xmlstr,
             attempts, firstErr, loaded, svIn, svPc, svDoc, svLog, svErr, svOut>>

----------------------------------------------------------------------------
(* Bounds of the model *)

\* add() is not called on a collection that already holds this many plates.
MaxPlates == 3

\* A survey document is constructed from at most this many well records.
MaxWells == 2

----------------------------------------------------------------------------
(* Values *)

\* Python values: a str, an int, a float (n counts tenths for both numbers, so
\* that 0 and 0.0 are the same number), None, and a property object.
PyStr(s) == [ty |-> "str", s |-> s, n |-> 0]
PyInt(i) == [ty |-> "int", s |-> "", n |-> 10 * i]
PyFloat(tenths) == [ty |-> "float", s |-> "", n |-> tenths]
PyNone == [ty |-> "NoneType", s |-> "", n |-> 0]
PropertyObject == [ty |-> "property", s |-> "", n |-> 0]

\* Python's a == b: numbers compare by value across int and float, a str
\* equals only the same str, None only None, an object only itself.
PyEq(a, b) ==
    IF a.ty \in {"int", "float"} /\ b.ty \in {"int", "float"}
    THEN a.n = b.n
    ELSE a.ty = b.ty /\ a.s = b.s

\* An XML attribute that the element does not carry.
NoAttr == "<no attribute>"

\* A variable that holds nothing (nothing caught, nothing raised yet).
Nothing == "<nothing>"

\* The sequences over S of length at most n.
SeqsUpTo(S, n) == UNION {[1..k -> S] : k \in 0..n}

Range(s) == {s[i] : i \in 1..Len(s)}

\* How many times x occurs in the list s.
Count(s, x) == Cardinality({i \in 1..Len(s) : s[i] = x})

----------------------------------------------------------------------------
(* labware.py: PlateInfo and the ELW subclasses *)

PlateTypes == {"A", "B", "C"}
Usages == {"SRC", "DEST", "OTHER"}

\* A PlateInfo object.  Of its 25 fields the model keeps platetype, the three
\* fields the ELW subclasses redefine (plateformat, usage, welllength) and the
\* field welllength is to mirror (wellwidth); the other required fields are
\* mapped as wellwidth is.  usage is declared str: any string is accepted.
PlateInfo(pt, u) ==
    [cls |-> "PlateInfo", platetype |-> PyStr(pt), plateformat |-> PyStr("384_WELL"),
     usage |-> PyStr(u), wellwidth |-> PyInt(3), welllength |-> PyInt(4)]

\* The plates a caller passes to Labware(...) and Labware.add.
PlateInputs == {PlateInfo(pt, u) : pt \in PlateTypes, u \in Usages}

ELWClasses == {"PlateInfoELWDest", "PlateInfoELWSrc"}

\* The names PlateInfoELWDest and PlateInfoELWSrc define in their class body.
ELWProperties == {"usage", "welllength", "plateformat"}

\* The attributes of the class object cls itself.  PlateInfo's fields are
\* annotations, not class attributes.  The ELW subclasses define usage,
\* welllength and plateformat as properties, but each of these names is an
\* inherited field: pydantic's metaclass takes a class attribute named like a
\* field as that field's default and deletes it from the class.
ClassAttrs(cls) == {}

\* The default of a field of class cls: for the ELW subclasses the property
\* object written in the class body, else none (the field is required).
HasDefault(cls, fld) == cls \in ELWClasses /\ fld \in ELWProperties

\* plate.usage: the property if the class has one, else the instance's field.
usage(p) ==
    IF "usage" \in ClassAttrs(p.cls)
    THEN (IF p.cls = "PlateInfoELWDest" THEN PyStr("DEST") ELSE PyStr("SRC"))
    ELSE p.usage

\* plate.welllength: the property if the class has one, else the field.
welllength(p) ==
    IF "welllength" \in ClassAttrs(p.cls) THEN p.wellwidth ELSE p.welllength

\* plate.plateformat: the property if the class has one, else the field.
plateformat(p) ==
    IF "plateformat" \in ClassAttrs(p.cls) THEN PyStr("UNKNOWN") ELSE p.plateformat

----------------------------------------------------------------------------
(* labware.py: the XML mapping of a plateinfo element *)

Digits == <<"0", "1", "2", "3", "4", "5", "6", "7", "8", "9">>

\* The text of an int attribute.
IntToStr(v) == Digits[(v.n \div 10) + 1]

IsIntStr(s) == \E i \in 0..9 : Digits[i + 1] = s

\* The int an int attribute's text is validated to.
StrToInt(s) == PyInt(CHOOSE i \in 0..9 : Digits[i + 1] = s)

\* The plateinfo element to_xml writes for a PlateInfo: one attribute per field.
PlateInfoToXml(p) ==
    [platetype   |-> p.platetype.s,
     plateformat |-> p.plateformat.s,
     usage       |-> p.usage.s,
     wellwidth   |-> IntToStr(p.wellwidth),
     welllength  |-> IntToStr(p.welllength)]

\* Whether from_xml of class cls accepts element e: every field without a
\* default has its attribute, and the int attributes hold ints.
PlateInfoParses(e, cls) ==
    /\ \A a \in {"platetype", "plateformat", "usage", "wellwidth", "welllength"} :
          e[a] = NoAttr => HasDefault(cls, a)
    /\ e.wellwidth # NoAttr => IsIntStr(e.wellwidth)
    /\ e.welllength # NoAttr => IsIntStr(e.welllength)

\* The object from_xml of class cls builds from element e (which it accepts):
\* a field whose attribute is absent holds its default.
PlateInfoFromXml(e, cls) ==
    [cls         |-> cls,
     platetype   |-> PyStr(e.platetype),
     plateformat |-> IF e.plateformat = NoAttr THEN PropertyObject
                     ELSE PyStr(e.plateformat),
     usage       |-> IF e.usage = NoAttr THEN PropertyObject ELSE PyStr(e.usage),
     wellwidth   |-> StrToInt(e.wellwidth),
     welllength  |-> IF e.welllength = NoAttr THEN PropertyObject
                     ELSE StrToInt(e.welllength)]

\* EchoLabwareELWX.from_xml raises on this file content.
ELWXFails(doc) ==
    \/ doc.root # "EchoLabware"
    \/ \E i \in 1..Len(doc.sourceplates) :
          ~PlateInfoParses(doc.sourceplates[i], "PlateInfo")
    \/ \E i \in 1..Len(doc.destinationplates) :
          ~PlateInfoParses(doc.destinationplates[i], "PlateInfo")

\* EchoLabwareELWX.from_xml(doc): both lists are lists of PlateInfo.
EchoLabwareELWX(doc) ==
    [sourceplates |->
        [i \in 1..Len(doc.sourceplates) |->
            PlateInfoFromXml(doc.sourceplates[i], "PlateInfo")],
     destinationplates |->
        [i \in 1..Len(doc.destinationplates) |->
            PlateInfoFromXml(doc.destinationplates[i], "PlateInfo")]]

\* EchoLabwareELW.from_xml raises on this file content.
ELWFails(doc) ==
    \/ doc.root # "EchoLabware"
    \/ \E i \in 1..Len(doc.sourceplates) :
          ~PlateInfoParses(doc.sourceplates[i], "PlateInfoELWSrc")
    \/ \E i \in 1..Len(doc.destinationplates) :
          ~PlateInfoParses(doc.destinationplates[i], "PlateInfoELWDest")

\* EchoLabwareELW.from_xml(doc): the source list holds PlateInfoELWSrc, the
\* destination list PlateInfoELWDest.
EchoLabwareELW(doc) ==
    [sourceplates |->
        [i \in 1..Len(doc.sourceplates) |->
            PlateInfoFromXml(doc.sourceplates[i], "PlateInfoELWSrc")],
     destinationplates |->
        [i \in 1..Len(doc.destinationplates) |->
            PlateInfoFromXml(doc.destinationplates[i], "PlateInfoELWDest")]]

----------------------------------------------------------------------------
(* labware.py: Labware *)

\* Labware.from_raw: the source list followed by the destination list.
from_raw(raw) == raw.sourceplates \o raw.destinationplates

\* Labware.keys
keys(ps) == [i \in 1..Len(ps) |-> ps[i].platetype]

RECURSIVE PlatesWithUsage(_, _)
\* [plate for plate in ps if plate.usage == u]
PlatesWithUsage(ps, u) ==
    IF ps = <<>> THEN <<>>
    ELSE IF PyEq(usage(Head(ps)), PyStr(u))
         THEN <<Head(ps)>> \o PlatesWithUsage(Tail(ps), u)
         ELSE PlatesWithUsage(Tail(ps), u)

\* Labware.to_elwx
to_elwx(ps) ==
    [sourceplates      |-> PlatesWithUsage(ps, "SRC"),
     destinationplates |-> PlatesWithUsage(ps, "DEST")]

\* Labware.to_xml: the ELWX document of to_elwx().
to_xml(ps) ==
    [root |-> "EchoLabware",
     sourceplates |->
        [i \in 1..Len(to_elwx(ps).sourceplates) |->
            PlateInfoToXml(to_elwx(ps).sourceplates[i])],
     destinationplates |->
        [i \in 1..Len(to_elwx(ps).destinationplates) |->
            PlateInfoToXml(to_elwx(ps).destinationplates[i])]]

----------------------------------------------------------------------------
(* labware.py: the files from_file is given *)

\* The plateinfo element of an ELWX file.
ElemELWX(pt, u) == PlateInfoToXml(PlateInfo(pt, u))

\* The plateinfo element of an ELW file: no usage, welllength or plateformat.
ElemELW(pt) ==
    [platetype |-> pt, plateformat |-> NoAttr, usage |-> NoAttr,
     wellwidth |-> "3", welllength |-> NoAttr]

\* An element without the required platetype attribute.
ElemBroken ==
    [platetype |-> NoAttr, plateformat |-> NoAttr, usage |-> NoAttr,
     wellwidth |-> "3", welllength |-> NoAttr]

Document(root, src, dst) ==
    [root |-> root, sourceplates |-> src, destinationplates |-> dst]

\* No file at the path.
NoFile == Document("<no file>", <<>>, <<>>)

\* The files found at the path that to_file did not write: two ELWX files
\* (the second with one platetype in both lists), two ELW files, a file with
\* a broken element and a file that is no EchoLabware document.
FileInputs ==
    { Document("EchoLabware", <<ElemELWX("A", "SRC")>>, <<ElemELWX("B", "DEST")>>),
      Document("EchoLabware", <<ElemELWX("A", "SRC")>>, <<ElemELWX("A", "DEST")>>),
      Document("EchoLabware", <<ElemELW("A")>>, <<ElemELW("B")>>),
      Document("EchoLabware", <<ElemELW("A"), ElemELW("B")>>, <<ElemELW("C")>>),
      Document("EchoLabware", <<ElemELW("A"), ElemBroken>>, <<>>),
      Document("html", <<>>, <<>>) }

\* The exception each document model's from_xml raises.
ErrELWX == "error raised by EchoLabwareELWX.from_xml"
ErrELW == "error raised by EchoLabwareELW.from_xml"

----------------------------------------------------------------------------
(* labware.py: the operations on a Labware and on the file *)

NoPlate == [cls |-> "<no plate>"]
NoElwx == [sourceplates |-> <<>>, destinationplates |-> <<>>]
NotWritten == [by |-> "nobody", plates |-> <<>>]

\* What an operation other than from_file leaves of the last from_file.
ForgetFromFile ==
    /\ xmlstr' = NoFile
    /\ attempts' = <<>>
    /\ firstErr' = Nothing
    /\ loaded' = <<>>

LabwareIdle == op # "off" /\ pc = "idle"

\* Labware(ps): __init__ keeps the list it is given, as it is.
LabwareInit(ps) ==
    /\ plates = ps
    /\ op = "init"
    /\ before = <<>>
    /\ arg = NoPlate
    /\ ret = "ok"
    /\ elwx = NoElwx
    /\ file = NoFile
    /\ written = NotWritten
    /\ pc = "idle"
    /\ xmlstr = NoFile
    /\ attempts = <<>>
    /\ firstErr = Nothing
    /\ loaded = <<>>

\* A run that drives no Labware.
LabwareOff ==
    /\ plates = <<>>
    /\ op = "off"
    /\ before = <<>>
    /\ arg = NoPlate
    /\ ret = "ok"
    /\ elwx = NoElwx
    /\ file = NoFile
    /\ written = NotWritten
    /\ pc = "idle"
    /\ xmlstr = NoFile
    /\ attempts = <<>>
    /\ firstErr = Nothing
    /\ loaded = <<>>

\* Labware.add without the test of keys(): the plate is appended in any case.
AddUnchecked(plate) ==
    /\ LabwareIdle
    /\ Len(plates) < MaxPlates
    /\ op' = "add"
    /\ before' = plates
    /\ arg' = plate
    /\ ret' = "ok"
    /\ plates' = Append(plates, plate)
    /\ elwx' = NoElwx
    /\ ForgetFromFile
    /\ UNCHANGED <<file, written, pc, svVars>>

\* Labware.add(plate)
Add(plate) ==
    /\ LabwareIdle
    /\ Len(plates) < MaxPlates
    /\ op' = "add"
    /\ before' = plates
    /\ arg' = plate
    /\ IF \E k \in Range(keys(plates)) : PyEq(plate.platetype, k)
       THEN /\ ret' = "KeyError"
            /\ plates' = plates
       ELSE /\ ret' = "ok"
            /\ plates' = Append(plates, plate)
    /\ elwx' = NoElwx
    /\ ForgetFromFile
    /\ UNCHANGED <<file, written, pc, svVars>>

\* Labware.to_elwx()
ToElwx ==
    /\ LabwareIdle
    /\ op' = "to_elwx"
    /\ before' = plates
    /\ arg' = NoPlate
    /\ ret' = "ok"
    /\ elwx' = to_elwx(plates)
    /\ ForgetFromFile
    /\ UNCHANGED <<plates, file, written, pc, svVars>>

\* Labware.to_file(path): writes to_xml() to the file.
ToFile ==
    /\ LabwareIdle
    /\ op' = "to_file"
    /\ before' = plates
    /\ arg' = NoPlate
    /\ ret' = "ok"
    /\ elwx' = NoElwx
    /\ file' = to_xml(plates)
    /\ written' = [by |-> "to_file", plates |-> plates]
    /\ ForgetFromFile
    /\ UNCHANGED <<plates, pc, svVars>>

\* Something else than to_file puts a file at the path.
PutFile(doc) ==
    /\ LabwareIdle
    /\ file # doc
    /\ op' = "put_file"
    /\ before' = plates
    /\ arg' = NoPlate
    /\ ret' = "ok"
    /\ elwx' = NoElwx
    /\ file' = doc
    /\ written' = NotWritten
    /\ ForgetFromFile
    /\ UNCHANGED <<plates, pc, svVars>>

\* Labware.from_file(path), line 121: xmlstr = open(path).read(), before the try.
FromFileOpen ==
    /\ LabwareIdle
    /\ op' = "from_file"
    /\ before' = plates
    /\ arg' = NoPlate
    /\ elwx' = NoElwx
    /\ attempts' = <<>>
    /\ firstErr' = Nothing
    /\ loaded' = <<>>
    /\ IF file = NoFile
       THEN /\ ret' = "FileNotFoundError"
            /\ xmlstr' = NoFile
            /\ pc' = "idle"
       ELSE /\ ret' = "running"
            /\ xmlstr' = file
            /\ pc' = "try"
    /\ UNCHANGED <<plates, file, written, svVars>>

\* Labware.from_file, lines 122-124: the try block, and the except clause
\* catching what it raises.
FromFileTry ==
    /\ pc = "try"
    /\ attempts' = Append(attempts, "EchoLabwareELWX")
    /\ IF ELWXFails(xmlstr)
       THEN /\ firstErr' = ErrELWX
            /\ pc' = "except"
            /\ UNCHANGED <<ret, loaded>>
       ELSE /\ loaded' = from_raw(EchoLabwareELWX(xmlstr))
            /\ ret' = "ok"
            /\ pc' = "idle"
            /\ UNCHANGED firstErr
    /\ UNCHANGED <<plates, op, before, arg, elwx, file, written, xmlstr, svVars>>

\* The except block re-raising what it caught when its own parse fails.
FromFileExceptFirstError ==
    /\ pc = "except"
    /\ attempts' = Append(attempts, "EchoLabwareELW")
    /\ IF ELWFails(xmlstr)
       THEN /\ ret' = firstErr
            /\ UNCHANGED loaded
       ELSE /\ loaded' = from_raw(EchoLabwareELW(xmlstr))
            /\ ret' = "ok"
    /\ pc' = "idle"
    /\ UNCHANGED <<plates, op, before, arg, elwx, file, written, xmlstr,
                   firstErr, svVars>>

\* Labware.from_file, line 125: the except block.
FromFileExcept ==
    /\ pc = "except"
    /\ attempts' = Append(attempts, "EchoLabwareELW")
    /\ IF ELWFails(xmlstr)
       THEN /\ ret' = ErrELW
            /\ UNCHANGED loaded
       ELSE /\ loaded' = from_raw(EchoLabwareELW(xmlstr))
            /\ ret' = "ok"
    /\ pc' = "idle"
    /\ UNCHANGED <<plates, op, before, arg, elwx, file, written, xmlstr,
                   firstErr, svVars>>

----------------------------------------------------------------------------
(* surveys/platesurvey.py: the annotated scalar types *)

\* Barcode's BeforeValidator (line 21): val if val != "UnknownBarCode" else None
BarcodeValidator(val) ==
    IF ~PyEq(val, PyStr("UnknownBarCode")) THEN val ELSE PyNone

\* The function given to Barcode's PlainSerializer (line 18):
\* val if val is not None else "UnknownBarCode"
BarcodeSerializerFunc(val) ==
    IF val # PyNone THEN val ELSE PyStr("UnknownBarCode")

\* Barcode's PlainSerializer (lines 17-20), when_used="unless-none": the
\* function serializes every value but None, and None is left as it is.
BarcodeSerializer(val) ==
    IF val = PyNone THEN PyNone ELSE BarcodeSerializerFunc(val)

\* FloatNullZero's BeforeValidator (line 26): val if val != 0 else None
FloatNullZeroValidator(val) ==
    IF ~PyEq(val, PyInt(0)) THEN val ELSE PyNone

\* The function given to FloatNullZero's PlainSerializer (line 27):
\* val if val is not None else 0
FloatNullZeroSerializerFunc(val) ==
    IF val # PyNone THEN val ELSE PyInt(0)

\* FloatNullZero's PlainSerializer (line 27), when_used="unless-none".
FloatNullZeroSerializer(val) ==
    IF val = PyNone THEN PyNone ELSE FloatNullZeroSerializerFunc(val)

\* float(s), in tenths, of the attribute texts the model draws.
FloatOfStr(s) ==
    CASE s = "0"    -> 0
      [] s = "0.0"  -> 0
      [] s = "12.5" -> 125

\* Validation of a value against float | None, after the BeforeValidator:
\* None stays None, a number becomes a float, a str is parsed as a float.
ValidateOptionalFloat(val) ==
    CASE val.ty = "NoneType" -> PyNone
      [] val.ty = "str"      -> PyFloat(FloatOfStr(val.s))
      [] OTHER               -> PyFloat(val.n)

\* The value a field declared Barcode holds for the input val.
Barcode(val) == BarcodeValidator(val)

\* The value a field declared FloatNullZero holds for the input val.
FloatNullZero(val) == ValidateOptionalFloat(FloatNullZeroValidator(val))

----------------------------------------------------------------------------
(* surveys/platesurvey.py: WellSurvey and EchoPlateSurveyXML *)

\* The input of one well: its name and the values given for vl and cvl (the
\* other attributes of a w element are plain str and float fields).
WellInput(name, vl, cvl) == [well |-> name, vl |-> vl, cvl |-> cvl]

\* Wells as they come from an XML file (every attribute a str) and as they
\* are built in Python.
WellInputs ==
    { WellInput("A1", PyStr("0"), PyStr("0")),
      WellInput("A2", PyStr("12.5"), PyStr("0.0")),
      WellInput("B1", PyInt(0), PyNone),
      WellInput("B2", PyFloat(125), PyFloat(0)) }

BarcodeInputs == {PyStr("UnknownBarCode"), PyStr("BC01"), PyNone}

FormatVersions == {0, 1, 2}

\* The inputs of EchoPlateSurveyXML: the barcode, frmt and totalWells
\* attributes and the w elements.
SurveyInputs ==
    { [barcode |-> b, frmt |-> v, totalWells |-> t, wells |-> ws] :
        b \in BarcodeInputs, v \in FormatVersions, t \in 0..(MaxWells + 1),
        ws \in SeqsUpTo(WellInputs, MaxWells) }

\* WellSurvey: the fields of one well after validation.
WellSurvey(w) ==
    [well           |-> w.well,
     volume         |-> FloatNullZero(w.vl),
     current_volume |-> FloatNullZero(w.cvl)]

\* EchoPlateSurveyXML: the fields of the instance after the validation of
\* each field, before the model validators run.
EchoPlateSurveyXML(in) ==
    [plate_barcode       |-> Barcode(in.barcode),
     data_format_version |-> in.frmt,
     survey_total_wells  |-> in.totalWells,
     wells               |-> [i \in 1..Len(in.wells) |-> WellSurvey(in.wells[i])]]

\* What serialization hands to the XML writer for a constructed document.
Serialized(doc) ==
    [barcode |-> BarcodeSerializer(doc.plate_barcode),
     frmt |-> doc.data_format_version,
     totalWells |-> doc.survey_total_wells,
     wells |-> [i \in 1..Len(doc.wells) |->
                  [well |-> doc.wells[i].well,
                   vl   |-> FloatNullZeroSerializer(doc.wells[i].volume),
                   cvl  |-> FloatNullZeroSerializer(doc.wells[i].current_volume)]]]

NoSurveyInput == [barcode |-> PyNone, frmt |-> 1, totalWells |-> 0, wells |-> <<>>]
NoSurvey == EchoPlateSurveyXML(NoSurveyInput)
NotSerialized == Serialized(NoSurvey)

\* EchoPlateSurveyXML(...) is called with the input in.
SurveyInit(in) ==
    /\ svIn = in
    /\ svPc = "fields"
    /\ svDoc = NoSurvey
    /\ svLog = <<>>
    /\ svErr = "none"
    /\ svOut = NotSerialized

\* A run that constructs no survey document.
SurveyOff ==
    /\ svIn = NoSurveyInput
    /\ svPc = "off"
    /\ svDoc = NoSurvey
    /\ svLog = <<>>
    /\ svErr = "none"
    /\ svOut = NotSerialized

\* The fields are validated (the BeforeValidators run) and set.
ValidateFields ==
    /\ svPc = "fields"
    /\ svDoc' = EchoPlateSurveyXML(svIn)
    /\ svPc' = "check_number_of_wells"
    /\ UNCHANGED <<svIn, svLog, svErr, svOut, labVars>>

\* check_number_of_wells rejecting only a document with too few wells.
check_too_few_wells ==
    /\ svPc = "check_number_of_wells"
    /\ IF Len(svDoc.wells) < svDoc.survey_total_wells
       THEN /\ svErr' = "ValueError"
            /\ svPc' = "raised"
       ELSE /\ svErr' = svErr
            /\ svPc' = "check_data_format_version"
    /\ UNCHANGED <<svIn, svDoc, svLog, svOut, labVars>>

\* EchoPlateSurveyXML.check_number_of_wells, the first "after" validator.
check_number_of_wells ==
    /\ svPc = "check_number_of_wells"
    /\ IF Len(svDoc.wells) # svDoc.survey_total_wells
       THEN /\ svErr' = "ValueError"
            /\ svPc' = "raised"
       ELSE /\ svErr' = svErr
            /\ svPc' = "check_data_format_version"
    /\ UNCHANGED <<svIn, svDoc, svLog, svOut, labVars>>

\* check_data_format_version raising instead of warning.
check_data_format_version_fatal ==
    /\ svPc = "check_data_format_version"
    /\ IF svDoc.data_format_version # 1
       THEN /\ svErr' = "ValueError"
            /\ svPc' = "raised"
       ELSE /\ svErr' = svErr
            /\ svPc' = "constructed"
    /\ UNCHANGED <<svIn, svDoc, svLog, svOut, labVars>>

\* EchoPlateSurveyXML.check_data_format_version, the second "after" validator;
\* the instance it returns is the one construction returns.
check_data_format_version ==
    /\ svPc = "check_data_format_version"
    /\ IF svDoc.data_format_version # 1
       THEN svLog' = Append(svLog, "Unexpected data format version")
       ELSE svLog' = svLog
    /\ svPc' = "constructed"
    /\ UNCHANGED <<svIn, svDoc, svErr, svOut, labVars>>

\* The constructed document is serialized (to_xml_tree, write_xml).
Serialize ==
    /\ svPc = "constructed"
    /\ svOut' = Serialized(svDoc)
    /\ svPc' = "serialized"
    /\ UNCHANGED <<svIn, svDoc, svLog, svErr, labVars>>

----------------------------------------------------------------------------
(* The specification *)

Init ==
    \/ /\ \E ps \in SeqsUpTo(PlateInputs, MaxPlates) : LabwareInit(ps)
       /\ SurveyOff
    \/ /\ LabwareOff
       /\ \E in \in SurveyInputs : SurveyInit(in)

Next ==
    \/ \E plate \in PlateInputs : Add(plate)
    \/ ToElwx
    \/ ToFile
    \/ \E doc \in FileInputs : PutFile(doc)
    \/ FromFileOpen
    \/ FromFileTry
    \/ FromFileExcept
    \/ ValidateFields
    \/ check_number_of_wells
    \/ check_data_format_version
    \/ Serialize

Spec == Init /\ [][Next]_vars

----------------------------------------------------------------------------
(* Properties *)

\* No two plates of the list have the same platetype.
NoDuplicateKeys(ps) ==
    \A i, j \in 1..Len(ps) : i # j => ~PyEq(ps[i].platetype, ps[j].platetype)

\* The lists a and b hold the same plates, each as many times.
SamePlates(a, b) ==
    \A p \in Range(a) \cup Range(b) : Count(a, p) = Count(b, p)

RECURSIVE IsSubsequence(_, _)
\* sub is s with some elements left out, the others in s's order.
IsSubsequence(sub, s) ==
    IF sub = <<>> THEN TRUE
    ELSE IF s = <<>> THEN FALSE
    ELSE IF Head(sub) = Head(s) THEN IsSubsequence(Tail(sub), Tail(s))
    ELSE IsSubsequence(sub, Tail(s))

SurveyReturned == svPc \in {"constructed", "serialized"}
SurveyFinished == svPc \in {"raised", "constructed", "serialized"}
FromFileReturned == op = "from_file" /\ pc = "idle" /\ ret = "ok"

\* C1: add(p) of a plate whose platetype is already a key raises KeyError and
\* leaves the plate list exactly as it was; add(p) of a plate with a new
\* platetype succeeds and the list is the old list with p appended.
C1_AddContract ==
    op = "add" =>
        IF \E i \in 1..Len(before) : before[i].platetype = arg.platetype
        THEN ret = "KeyError" /\ plates = before
        ELSE ret = "ok" /\ plates = Append(before, arg)

\* add was called with a plate that is not in the collection but whose
\* platetype is, was refused, and the collection still holds what it held.
C1_Witness ==
    /\ op = "add"
    /\ ret = "KeyError"
    /\ before # <<>>
    /\ arg \notin Range(before)
    /\ plates = before

\* C2: in every reachable state no Labware holds two plates of one platetype,
\* whether built by Labware(plates), by from_file/from_raw, or grown by add.
C2_UniquePlatetypes == NoDuplicateKeys(plates) /\ NoDuplicateKeys(loaded)

\* C3: construction raises ValueError exactly when the number of wells
\* differs from survey_total_wells (fewer or more), so every constructed
\* document has len(wells) == survey_total_wells, and equal counts pass.
C3_WellCount ==
    /\ svPc = "raised" => svErr = "ValueError"
    /\ SurveyFinished =>
          (svPc = "raised" <=> Len(svIn.wells) # svIn.totalWells)
    /\ SurveyReturned =>
          svErr = "none" /\ Len(svDoc.wells) = svDoc.survey_total_wells

\* Construction failed on a document with more wells than it declares.
C3_Witness ==
    /\ svPc = "raised"
    /\ svErr = "ValueError"
    /\ Len(svIn.wells) > svIn.totalWells

\* C4: a Labware built by add calls, written by to_file and read back by
\* from_file, comes back with the same plates and the same field values.
C4_RoundTrip ==
    (/\ op = "from_file"
     /\ pc = "idle"
     /\ written.by = "to_file"
     /\ NoDuplicateKeys(written.plates))
    => ret = "ok" /\ SamePlates(loaded, written.plates)

\* C5: from_file parses the file as EchoLabwareELWX first; EchoLabwareELW is
\* tried only after that parse raised; if the first parse succeeds its result
\* is returned and the second never runs; if both raise, the exception that
\* leaves from_file is the second parse's.
C5_FromFileOrder ==
    /\ attempts \in {<<>>, <<"EchoLabwareELWX">>,
                     <<"EchoLabwareELWX", "EchoLabwareELW">>}
    /\ (pc = "except" \/ Len(attempts) = 2) =>
          firstErr = ErrELWX /\ ELWXFails(xmlstr)
    /\ (op = "from_file" /\ pc = "idle" /\ xmlstr # NoFile) =>
          IF ~ELWXFails(xmlstr)
          THEN /\ attempts = <<"EchoLabwareELWX">>
               /\ ret = "ok"
               /\ loaded = from_raw(EchoLabwareELWX(xmlstr))
          ELSE /\ attempts = <<"EchoLabwareELWX", "EchoLabwareELW">>
               /\ IF ELWFails(xmlstr)
                  THEN ret = ErrELW
                  ELSE ret = "ok" /\ loaded = from_raw(EchoLabwareELW(xmlstr))

\* Both parses were tried, both raised, and the second one's exception left
\* from_file while the first one's had been caught.
C5_Witness ==
    /\ op = "from_file"
    /\ pc = "idle"
    /\ attempts = <<"EchoLabwareELWX", "EchoLabwareELW">>
    /\ firstErr = ErrELWX
    /\ ret = ErrELW

\* C6: every plate read from an ELW document reports usage "SRC" if it came
\* from the source list and "DEST" if from the destination list, welllength
\* equal to its wellwidth, and plateformat "UNKNOWN".
C6_ELWDerivedFields ==
    (FromFileReturned /\ Len(attempts) = 2) =>
        \A i \in 1..Len(loaded) :
            /\ usage(loaded[i]) =
                  (IF i <= Len(xmlstr.sourceplates) THEN PyStr("SRC")
                   ELSE PyStr("DEST"))
            /\ welllength(loaded[i]) = loaded[i].wellwidth
            /\ plateformat(loaded[i]) = PyStr("UNKNOWN")

\* C7: the field holds None for the input "UnknownBarCode" and the input
\* itself for any other; serialization gives "UnknownBarCode" for None and
\* the string for a string; decoding what was encoded gives the field's value
\* back, and encoding what was decoded gives the input string back.
C7_BarcodeCodec ==
    /\ svPc \notin {"off", "fields"} =>
          svDoc.plate_barcode =
             (IF svIn.barcode = PyStr("UnknownBarCode") THEN PyNone
              ELSE svIn.barcode)
    /\ svPc = "serialized" =>
          /\ svOut.barcode =
                (IF svDoc.plate_barcode = PyNone THEN PyStr("UnknownBarCode")
                 ELSE svDoc.plate_barcode)
          /\ Barcode(svOut.barcode) = svDoc.plate_barcode
          /\ svIn.barcode.ty = "str" => svOut.barcode = svIn.barcode

\* C8: a well whose vl (or cvl) attribute is the text "0" has volume None, a
\* nonzero text gives that float; serialization gives 0 for None and the
\* value for a value.
C8_ZeroAsAbsent ==
    /\ svPc \notin {"off", "fields"} =>
          \A i \in 1..Len(svIn.wells) :
              /\ svIn.wells[i].vl = PyStr("0") =>
                    svDoc.wells[i].volume = PyNone
              /\ svIn.wells[i].cvl = PyStr("0") =>
                    svDoc.wells[i].current_volume = PyNone
              /\ svIn.wells[i].vl = PyStr("12.5") =>
                    svDoc.wells[i].volume = PyFloat(125)
    /\ svPc = "serialized" =>
          \A i \in 1..Len(svDoc.wells) :
              /\ svDoc.wells[i].volume = PyNone =>
                    PyEq(svOut.wells[i].vl, PyInt(0))
              /\ svDoc.wells[i].volume # PyNone =>
                    svOut.wells[i].vl = svDoc.wells[i].volume

\* C9: the version check never fails construction: a document with a
\* consistent well count is returned as validated whatever its version, with
\* one warning logged if the version is not 1 and none if it is 1; whether
\* construction raises is decided by the well count alone.
C9_VersionWarning ==
    /\ svDoc.data_format_version = 1 => svLog = <<>>
    /\ SurveyReturned =>
          /\ svDoc = EchoPlateSurveyXML(svIn)
          /\ Len(svLog) = (IF svIn.frmt # 1 THEN 1 ELSE 0)
    /\ SurveyFinished =>
          (svErr = "none" <=> Len(svIn.wells) = svIn.totalWells)
    /\ SurveyFinished /\ Len(svIn.wells) = svIn.totalWells => SurveyReturned

\* A document of a version other than 1 was constructed, with the warning.
C9_Witness ==
    /\ svPc = "constructed"
    /\ svIn.frmt # 1
    /\ Len(svLog) = 1
    /\ svErr = "none"
    /\ svIn.wells # <<>>

\* C10: to_elwx leaves the collection unchanged and puts each of its plates
\* in exactly one of the two lists: the source list holds the plates of usage
\* "SRC", the destination list those of usage "DEST", each in the
\* collection's order, and together they hold as many plates as it does.
C10_SplitByUsage ==
    op = "to_elwx" =>
        /\ plates = before
        /\ \A p \in Range(elwx.sourceplates) : usage(p) = PyStr("SRC")
        /\ \A p \in Range(elwx.destinationplates) : usage(p) = PyStr("DEST")
        /\ IsSubsequence(elwx.sourceplates, plates)
        /\ IsSubsequence(elwx.destinationplates, plates)
        /\ \A p \in Range(plates) :
              Count(elwx.sourceplates, p) + Count(elwx.destinationplates, p)
                 = Count(plates, p)
        /\ Len(elwx.sourceplates) + Len(elwx.destinationplates) = Len(plates)

====
